---- MODULE Spec2Model ----
(***************************************************************************)
(* Verification model of bridgy-fed's Salmon intake (salmon.py) and its    *)
(* datastore models (models.py).                                           *)
(*                                                                         *)
(* Python strings are modelled as sequences of one-character strings, so   *)
(* that str.replace, startswith and "in" are computed, not assumed.        *)
(***************************************************************************)
EXTENDS Integers, Sequences, FiniteSets, TLC

VARIABLES
  \* --- Response._encode / _decode applied to one string
  epc,          \* "off" | "start" | "encoded" | "decoded"
  encIn,        \* the input string
  encOut,       \* _encode(encIn)
  decOut,       \* _decode(encOut)
  \* --- datastore, Response kind
  responses,    \* key id -> stored Response entity
  clock,        \* logical time of the datastore (one tick per write)
  inserted,     \* key id -> created stamps of the entities ever put under it
  lastOp,       \* the last operation on the Response kind and what it returned
  \* --- datastore, MagicKey kind, and the callers of MagicKey.get_or_create
  keys,         \* domain -> stored MagicKey entity, or None
  kver,         \* domain -> commits to that entity group so far
  kcall,        \* caller -> its position in get_or_create and its locals
  kputs,        \* domain -> entities ever committed under that id
  kret,         \* domain -> entities ever returned by get_or_create
  genCount,     \* domain -> magicsigs.generate() calls made for it
  nextGen,      \* keypairs handed out so far
  \* --- SlapHandler.post, one request at a time
  req,          \* the envelope POSTed (self.request.body)
  spc,          \* position in post()
  parsed,       \* local: the parsed envelope
  data,         \* local: the decoded payload
  activity,     \* local: the activity
  author,       \* local: the author URI
  stages,       \* stages of post() run for this request, in order
  verifyCalls,  \* magicsigs.verify calls of this request, with their results
  dispatchCalls,\* common.send_webmentions calls of this request
  relayed,      \* key ids of the Responses created or fetched for this request
  outcome,      \* how the request ended
  nreq          \* requests received so far

encVars == <<epc, encIn, encOut, decOut>>
respVars == <<responses, clock, inserted, lastOp>>
keyVars == <<keys, kver, kcall, kputs, kret, genCount, nextGen>>
slapVars == <<req, spc, parsed, data, activity, author, stages, verifyCalls,
              dispatchCalls, relayed, outcome, nreq>>
vars == <<encVars, respVars, keyVars, slapVars>>

None == "None"

\* Python None where a string is expected (strings are sequences)
NoStr == <<"None">>

\* ------------------------------------------------------------------------
\* Bounds of the model
\* ------------------------------------------------------------------------
MaxLen == 4          \* longest string fed to _encode / _decode
MaxClock == 2        \* datastore writes to the Response kind per behaviour
MaxRequests == 2     \* envelopes POSTed per behaviour
MaxGen == 3          \* keypairs magicsigs.generate hands out per behaviour

\* ------------------------------------------------------------------------
\* Python string primitives
\* ------------------------------------------------------------------------
RECURSIVE StrReplace(_, _, _)
\* str.replace(old, new): leftmost, non-overlapping occurrences
StrReplace(val, old, new) ==
  IF Len(val) < Len(old) THEN val
  ELSE IF SubSeq(val, 1, Len(old)) = old
         THEN new \o StrReplace(SubSeq(val, Len(old) + 1, Len(val)), old, new)
         ELSE <<Head(val)>> \o StrReplace(Tail(val), old, new)

\* c in s, for a one-character c
StrContains(s, c) == \E i \in 1..Len(s) : s[i] = c

\* s.startswith(prefix)
StartsWith(s, prefix) ==
  /\ Len(s) >= Len(prefix)
  /\ SubSeq(s, 1, Len(prefix)) = prefix

\* Python truthiness of an optional string: None and '' are false
Truthy(v) == v # NoStr /\ v # <<>>

\* Python truthiness of an optional verb name: None and '' are false
TruthyName(v) == v # None /\ v # ""

RECURSIVE StrSplit(_)
\* str.split(): the maximal runs of non-space characters, in order
StrSplit(s) ==
  IF s = <<>> THEN <<>>
  ELSE IF Head(s) = " " THEN StrSplit(Tail(s))
  ELSE LET rest == StrSplit(Tail(s))
       IN IF Len(s) > 1 /\ s[2] # " "
            THEN <<(<<Head(s)>> \o Head(rest))>> \o Tail(rest)
            ELSE <<(<<Head(s)>>)>> \o rest

\* all strings over alphabet of length at most n
StringsUpTo(alphabet, n) == UNION {[1..k -> alphabet] : k \in 0..n}

\* ------------------------------------------------------------------------
\* models.py: Response._encode, Response._decode, Response._id
\* ------------------------------------------------------------------------
Response_encode_keep(val) == val

Response_encode(val) == StrReplace(val, <<"#">>, <<"_", "_">>)

Response_decode(val) == StrReplace(val, <<"_", "_">>, <<"#">>)

Response_id_raw(source, target) == source \o <<" ">> \o target

Response_id(source, target) ==
  Response_encode(source) \o <<" ">> \o Response_encode(target)

\* an _id without its two asserts
Response_id_asserts_none(source, target) == TRUE

\* assert source; assert target (inside _id)
Response_id_asserts(source, target) == Truthy(source) /\ Truthy(target)

\* Response.source(): self.key.id().split()[0]
Response_source(id) == StrSplit(id)[1]

\* Response.target(): self.key.id().split()[1]
Response_target(id) == StrSplit(id)[2]

\* ------------------------------------------------------------------------
\* models.py: the Response entity
\* ------------------------------------------------------------------------
STATUSES == {"new", "complete", "error"}
PROTOCOLS == {"activitypub", "ostatus"}
DIRECTIONS == {"out", "in"}

\* f with key k bound to v
Record(f, k, v) == IF k \in DOMAIN f THEN [f EXCEPT ![k] = v] ELSE f @@ (k :> v)

Kwarg(kwargs, f, default) == IF f \in DOMAIN kwargs THEN kwargs[f] ELSE default

\* an entity whose source_mf2 is never stored
ResponseEntity_no_mf2(kwargs, now) ==
  [status      |-> Kwarg(kwargs, "status", "new"),
   protocol    |-> Kwarg(kwargs, "protocol", None),
   direction   |-> Kwarg(kwargs, "direction", None),
   source_mf2  |-> None,
   source_as2  |-> Kwarg(kwargs, "source_as2", None),
   source_atom |-> Kwarg(kwargs, "source_atom", None),
   created     |-> now,
   updated     |-> now]

\* the entity the property declarations build from keyword arguments
ResponseEntity(kwargs, now) ==
  [status      |-> Kwarg(kwargs, "status", "new"),
   protocol    |-> Kwarg(kwargs, "protocol", None),
   direction   |-> Kwarg(kwargs, "direction", None),
   source_mf2  |-> Kwarg(kwargs, "source_mf2", None),
   source_as2  |-> Kwarg(kwargs, "source_as2", None),
   source_atom |-> Kwarg(kwargs, "source_atom", None),
   created     |-> now,
   updated     |-> now]

\* ndb Model.get_or_insert(key_name, **kwargs): atomic; the stored entity if
\* there is one, otherwise a new entity built from kwargs, put and returned
GetOrInsert(store, id, kwargs, now) ==
  IF id \in DOMAIN store
    THEN [raised |-> None, id |-> id, ret |-> store[id], store |-> store,
          wrote |-> FALSE]
    ELSE LET ent == ResponseEntity(kwargs, now)
         IN [raised |-> None, id |-> id, ret |-> ent,
             store |-> store @@ (id :> ent), wrote |-> TRUE]

\* Response.__init__(source, target, **kwargs): the key id comes from the pair
\* only if both are truthy; otherwise the entity is built from kwargs alone
Response_init(source, target, kwargs) ==
  IF Truthy(source) /\ Truthy(target)
    THEN IF "id" \in DOMAIN kwargs
           THEN [raised |-> "AssertionError", id |-> NoStr, built |-> FALSE]
           ELSE IF Response_id_asserts(source, target)
             THEN [raised |-> None, id |-> Response_id(source, target),
                   built |-> TRUE]
             ELSE [raised |-> "AssertionError", id |-> NoStr, built |-> FALSE]
    ELSE [raised |-> None, id |-> Kwarg(kwargs, "id", NoStr), built |-> TRUE]

\* a get_or_create that builds and puts the entity on every call
Response_get_or_create_put(store, source, target, kwargs, now) ==
  IF ~Response_id_asserts(source, target)
    THEN [raised |-> "AssertionError", id |-> NoStr, ret |-> None,
          store |-> store, wrote |-> FALSE]
    ELSE LET id == Response_id(source, target)
             ent == ResponseEntity(kwargs, now)
         IN [raised |-> None, id |-> id, ret |-> ent,
             store |-> Record(store, id, ent), wrote |-> TRUE]

Response_get_or_create(store, source, target, kwargs, now) ==
  IF ~Response_id_asserts(source, target)
    THEN [raised |-> "AssertionError", id |-> NoStr, ret |-> None,
          store |-> store, wrote |-> FALSE]
    ELSE GetOrInsert(store, Response_id(source, target), kwargs, now)

\* ------------------------------------------------------------------------
\* Inputs
\* ------------------------------------------------------------------------
Alphabet == {"a", "#", "_"}

\* URLs handed to Response.get_or_create: plain, with '#', with '__'
Urls == {<<"a">>, <<"a", "#">>, <<"a", "_", "_">>}

Targets == {<<"t">>, <<"#">>}

\* what a caller may pass for source / target (None and '' are falsy)
SourceArgs == Urls \cup {NoStr, <<>>}
TargetArgs == Targets \cup {NoStr}

KwargsChoices ==
  {[direction |-> "in", protocol |-> "ostatus", source_atom |-> "atom"],
   [direction |-> "out", protocol |-> "activitypub", source_as2 |-> "as2",
    source_mf2 |-> "mf2", status |-> "error"]}

\* keyword arguments given to the constructor, without and with an id
InitKwargsChoices ==
  {[direction |-> "in"], [direction |-> "in", id |-> <<"k">>]}

\* ------------------------------------------------------------------------
\* Initial states of the parts
\* ------------------------------------------------------------------------
EncOff == epc = "off" /\ encIn = <<>> /\ encOut = None /\ decOut = None

RespInit ==
  /\ responses = <<>>
  /\ clock = 0
  /\ inserted = <<>>
  /\ lastOp = [op |-> "none"]

\* MagicKey.get_by_id found nothing (Python None where an entity is expected)
NoKey == [id |-> None, mod |-> 0, public_exponent |-> None, private_exponent |-> 0]

Domains == {"d1", "d2"}
Callers == {"w1", "w2"}

KeyInit ==
  /\ keys = [d \in Domains |-> NoKey]
  /\ kver = [d \in Domains |-> 0]
  /\ kcall = [p \in Callers |-> [pc |-> "idle", domain |-> None, key |-> NoKey,
                                  ver |-> 0, dirty |-> FALSE, tries |-> 0]]
  /\ kputs = [d \in Domains |-> {}]
  /\ kret = [d \in Domains |-> {}]
  /\ genCount = [d \in Domains |-> 0]
  /\ nextGen = 0

NoEnvelope == [kind |-> "none"]
NoParsed == [kind |-> "none"]
NoDoc == [kind |-> "none"]
NoActivity == [kind |-> "none"]
NoOutcome == [kind |-> "none", cause |-> None, status |-> 0]

SlapInit ==
  /\ req = NoEnvelope
  /\ spc = "idle"
  /\ parsed = NoParsed
  /\ data = NoDoc
  /\ activity = NoActivity
  /\ author = NoStr
  /\ stages = <<>>
  /\ verifyCalls = <<>>
  /\ dispatchCalls = <<>>
  /\ relayed = {}
  /\ outcome = NoOutcome
  /\ nreq = 0

\* ------------------------------------------------------------------------
\* Response._encode followed by Response._decode on an arbitrary string
\* ------------------------------------------------------------------------
EncodeInit ==
  /\ epc = "start"
  /\ encIn \in StringsUpTo(Alphabet, MaxLen)
  /\ encOut = None
  /\ decOut = None
  /\ RespInit
  /\ KeyInit
  /\ SlapInit

Encode ==
  /\ epc = "start"
  /\ encOut' = Response_encode(encIn)
  /\ epc' = "encoded"
  /\ UNCHANGED <<encIn, decOut, respVars, keyVars, slapVars>>

Decode ==
  /\ epc = "encoded"
  /\ decOut' = Response_decode(encOut)
  /\ epc' = "decoded"
  /\ UNCHANGED <<encIn, encOut, respVars, keyVars, slapVars>>

EncodeNext == Encode \/ Decode

SpecEncode == EncodeInit /\ [][EncodeNext]_vars

\* ------------------------------------------------------------------------
\* Callers of Response.get_or_create, and delivery advancing the status
\* ------------------------------------------------------------------------
\* the bookkeeping of one Response.get_or_create(source, target, **kwargs)
ApplyGetOrCreate(source, target, kwargs) ==
  LET r == Response_get_or_create(responses, source, target, kwargs, clock + 1)
  IN /\ r.wrote => clock < MaxClock
     /\ responses' = r.store
     /\ clock' = IF r.wrote THEN clock + 1 ELSE clock
     /\ inserted' = IF r.wrote
                      THEN Record(inserted, r.id,
                                  (IF r.id \in DOMAIN inserted
                                     THEN inserted[r.id] ELSE {})
                                  \cup {r.store[r.id].created})
                      ELSE inserted
     /\ lastOp' = [op |-> "get_or_create", source |-> source, target |-> target,
                   kwargs |-> kwargs, raised |-> r.raised, id |-> r.id,
                   ret |-> r.ret, found |-> r.id \in DOMAIN responses]

CallGetOrCreate ==
  /\ \E source \in SourceArgs, target \in TargetArgs, kwargs \in KwargsChoices :
       ApplyGetOrCreate(source, target, kwargs)
  /\ UNCHANGED <<encVars, keyVars, slapVars>>

\* Response(source, target, **kwargs), not yet put
Construct ==
  /\ \E source \in SourceArgs, target \in TargetArgs,
        kwargs \in InitKwargsChoices :
       LET r == Response_init(source, target, kwargs)
       IN lastOp' = [op |-> "init", source |-> source, target |-> target,
                     kwargs |-> kwargs, raised |-> r.raised, id |-> r.id,
                     built |-> r.built]
  /\ UNCHANGED <<responses, clock, inserted, encVars, keyVars, slapVars>>

\* record.source() and record.target() on the entity a call just returned
ReadAccessors ==
  /\ lastOp.op = "get_or_create"
  /\ lastOp.raised = None
  /\ lastOp' = [op |-> "accessors", source |-> lastOp.source,
                target |-> lastOp.target, id |-> lastOp.id,
                source_ret |-> Response_source(lastOp.id),
                target_ret |-> Response_target(lastOp.id)]
  /\ UNCHANGED <<responses, clock, inserted, encVars, keyVars, slapVars>>

\* the dispatcher's delivery result: status moves to complete or error, and
\* the put refreshes updated (auto_now)
DeliverTo(id, st) ==
  /\ clock < MaxClock
  /\ responses' = [responses EXCEPT ![id] =
                     [@ EXCEPT !.status = st, !.updated = clock + 1]]
  /\ lastOp' = [op |-> "deliver", id |-> id, status |-> st]
  /\ clock' = clock + 1
  /\ UNCHANGED <<inserted, encVars, keyVars, slapVars>>

Deliver ==
  \E id \in DOMAIN responses, st \in {"complete", "error"} : DeliverTo(id, st)

ResponseInit == EncOff /\ RespInit /\ KeyInit /\ SlapInit

ResponseNext == CallGetOrCreate \/ Deliver \/ Construct \/ ReadAccessors

SpecResponse == ResponseInit /\ [][ResponseNext]_vars

\* ------------------------------------------------------------------------
\* salmon.py: what SlapHandler.post calls
\* ------------------------------------------------------------------------
SUPPORTED_VERBS_no_share ==
  {"checkin", "create", "favorite", "like", "tag", "update"}

SUPPORTED_VERBS ==
  {"checkin", "create", "favorite", "like", "share", "tag", "update"}

Acct == <<"a", "c", "c", "t", ":">>

\* utils.parse_magic_envelope(body): the envelope's data and sig, or ParseError
ParseMagicEnvelope(body) ==
  IF body.kind = "xml"
    THEN [raised |-> None,
          value |-> [kind |-> "envelope", data |-> body.data, sig |-> body.sig]]
    ELSE [raised |-> "ParseError", value |-> NoParsed]

\* utils.decode(parsed['data']): base64url-decodes; raises on undecodable data
UtilsDecode(encoded) ==
  IF encoded.b64 THEN [raised |-> None, value |-> encoded.doc]
                 ELSE [raised |-> "TypeError", value |-> NoDoc]

\* atom.atom_to_activity(data): the activity of an Atom entry, or ParseError
AtomToActivity(doc) ==
  IF doc.kind = "atom"
    THEN [raised |-> None,
          value |-> [kind |-> "activity", verb |-> doc.verb, actor |-> doc.actor,
                     object |-> [url |-> doc.source, inReplyTo |-> doc.target]]]
    ELSE [raised |-> "ParseError", value |-> NoActivity]

\* util.get_url(activity.get('actor')): the actor's URL, None without an actor
GetUrl(actor) == actor

\* magicsigs.verify(author, data, sig): sig was made with author's key over data
MagicsigsVerify(a, doc, sig) == sig.by = a /\ sig.over = doc

\* common.error(handler, msg, status=400): answers with the status and the
\* message and aborts the request
DefaultErrorStatus == 400

common_error(cause, status) ==
  [outcome |-> [kind |-> "Rejected", cause |-> cause, status |-> status],
   next |-> "done"]

\* an exception nothing catches leaves post(); webapp2 answers 500
Uncaught(exc) ==
  [outcome |-> [kind |-> "Unhandled", cause |-> exc, status |-> 500],
   next |-> "done"]

\* common.send_webmentions(handler, activity, protocol=, source_atom=): for the
\* (source, target) pair of the activity, Response.get_or_create and delivery
SendWebmentions(act, protocol, source_atom) ==
  ApplyGetOrCreate(act.object.url, act.object.inReplyTo,
                   [direction |-> "in", protocol |-> protocol,
                    source_atom |-> source_atom])

\* ------------------------------------------------------------------------
\* Envelopes a sender may POST
\* ------------------------------------------------------------------------
VerbChoices == {None, "checkin", "create", "favorite", "like", "share", "tag",
                "update", "poke"}

ActorChoices ==
  {NoStr, <<"a", "l">>, Acct \o <<"a", "l">>, <<"h", ":", "a", "l">>,
   <<"a", "l", ":", "8">>}

SourceChoices == {<<"a", "#">>}

Docs ==
  {[kind |-> "atom", verb |-> v, actor |-> a, source |-> s, target |-> <<"t">>] :
     v \in VerbChoices, a \in ActorChoices, s \in SourceChoices}

NotXml == [kind |-> "notxml"]

OtherDoc == [kind |-> "atom", verb |-> "create", actor |-> <<"a", "l">>,
             source |-> <<"o">>, target |-> <<"t">>]

\* signatures: by al's key over the payload, by al's key over another payload,
\* and by a key that is not al's
SigsFor(doc) ==
  {[by |-> Acct \o <<"a", "l">>, over |-> doc],
   [by |-> Acct \o <<"a", "l">>, over |-> OtherDoc],
   [by |-> Acct \o <<"m">>, over |-> doc]}

Envelopes ==
  {[kind |-> "notxml"]}
  \cup {[kind |-> "xml", data |-> [b64 |-> FALSE], sig |-> [by |-> NoStr, over |-> NoDoc]]}
  \cup {[kind |-> "xml", data |-> [b64 |-> TRUE, doc |-> NotXml], sig |-> g] :
          g \in SigsFor(NotXml)}
  \cup UNION {{[kind |-> "xml", data |-> [b64 |-> TRUE, doc |-> d], sig |-> g] :
                 g \in SigsFor(d)} : d \in Docs}

\* ------------------------------------------------------------------------
\* salmon.py: SlapHandler.post, stage by stage
\* ------------------------------------------------------------------------

\* a POST arrives at /[ACCT]/salmon, its body one of envs
ReceiveFrom(envs) ==
  /\ spc \in {"idle", "done"}
  /\ nreq < MaxRequests
  /\ req' \in envs
  /\ spc' = "envelope"
  /\ parsed' = NoParsed
  /\ data' = NoDoc
  /\ activity' = NoActivity
  /\ author' = NoStr
  /\ stages' = <<>>
  /\ verifyCalls' = <<>>
  /\ dispatchCalls' = <<>>
  /\ relayed' = {}
  /\ outcome' = NoOutcome
  /\ nreq' = nreq + 1
  /\ UNCHANGED <<encVars, respVars, keyVars>>

Receive == ReceiveFrom(Envelopes)

\* try: parsed = utils.parse_magic_envelope(self.request.body)
ParseEnvelope ==
  /\ spc = "envelope"
  /\ stages' = Append(stages, "envelope")
  /\ LET r == ParseMagicEnvelope(req)
         e == common_error("BadEnvelopeFormat", DefaultErrorStatus)
     IN IF r.raised = "ParseError"
          THEN /\ outcome' = e.outcome
               /\ spc' = e.next
               /\ UNCHANGED parsed
          ELSE /\ parsed' = r.value
               /\ spc' = "decode"
               /\ UNCHANGED outcome
  /\ UNCHANGED <<req, data, activity, author, verifyCalls, dispatchCalls,
                 relayed, nreq, encVars, respVars, keyVars>>

\* data = utils.decode(parsed['data'])
DecodeData ==
  /\ spc = "decode"
  /\ stages' = Append(stages, "decode")
  /\ LET r == UtilsDecode(parsed.data)
         e == Uncaught(r.raised)
     IN IF r.raised # None
          THEN /\ outcome' = e.outcome
               /\ spc' = e.next
               /\ UNCHANGED data
          ELSE /\ data' = r.value
               /\ spc' = "payload"
               /\ UNCHANGED outcome
  /\ UNCHANGED <<req, parsed, activity, author, verifyCalls, dispatchCalls,
                 relayed, nreq, encVars, respVars, keyVars>>

\* a payload parse that hands a parsed activity straight to author resolution
ParsePayload_skip_verb ==
  /\ spc = "payload"
  /\ stages' = Append(stages, "payload")
  /\ LET r == AtomToActivity(data)
         e == common_error("BadPayloadFormat", DefaultErrorStatus)
     IN IF r.raised = "ParseError"
          THEN /\ outcome' = e.outcome
               /\ spc' = e.next
               /\ UNCHANGED activity
          ELSE /\ activity' = r.value
               /\ spc' = "author"
               /\ UNCHANGED outcome
  /\ UNCHANGED <<req, parsed, data, author, verifyCalls, dispatchCalls,
                 relayed, nreq, encVars, respVars, keyVars>>

\* try: activity = atom.atom_to_activity(data)
ParsePayload ==
  /\ spc = "payload"
  /\ stages' = Append(stages, "payload")
  /\ LET r == AtomToActivity(data)
         e == common_error("BadPayloadFormat", DefaultErrorStatus)
     IN IF r.raised = "ParseError"
          THEN /\ outcome' = e.outcome
               /\ spc' = e.next
               /\ UNCHANGED activity
          ELSE /\ activity' = r.value
               /\ spc' = "verb"
               /\ UNCHANGED outcome
  /\ UNCHANGED <<req, parsed, data, author, verifyCalls, dispatchCalls,
                 relayed, nreq, encVars, respVars, keyVars>>

\* a verb check that reports nothing and goes on
CheckVerb_falls_through ==
  /\ spc = "verb"
  /\ stages' = Append(stages, "verb")
  /\ spc' = "author"
  /\ UNCHANGED <<req, parsed, data, activity, author, verifyCalls, dispatchCalls,
                 relayed, outcome, nreq, encVars, respVars, keyVars>>

\* verb = activity.get('verb'); if verb and verb not in SUPPORTED_VERBS: 501
CheckVerb ==
  /\ spc = "verb"
  /\ stages' = Append(stages, "verb")
  /\ LET verb == activity.verb
         e == common_error("UnsupportedVerb", 501)
     IN IF TruthyName(verb) /\ verb \notin SUPPORTED_VERBS
          THEN /\ outcome' = e.outcome
               /\ spc' = e.next
          ELSE /\ spc' = "author"
               /\ UNCHANGED outcome
  /\ UNCHANGED <<req, parsed, data, activity, author, verifyCalls, dispatchCalls,
                 relayed, nreq, encVars, respVars, keyVars>>

\* an author resolution that never adds the acct: prefix
ResolveAuthor_no_prefix ==
  /\ spc = "author"
  /\ stages' = Append(stages, "author")
  /\ LET a == GetUrl(activity.actor)
         e == common_error("UnsupportedAuthorScheme", DefaultErrorStatus)
         x == Uncaught("TypeError")
     IN IF a = NoStr
          THEN /\ outcome' = x.outcome
               /\ spc' = x.next
               /\ UNCHANGED author
          ELSE IF StrContains(a, ":") /\ ~StartsWith(a, Acct)
            THEN /\ author' = a
                 /\ outcome' = e.outcome
                 /\ spc' = e.next
            ELSE /\ author' = a
                 /\ spc' = "verify"
                 /\ UNCHANGED outcome
  /\ UNCHANGED <<req, parsed, data, activity, verifyCalls, dispatchCalls,
                 relayed, nreq, encVars, respVars, keyVars>>

\* author = util.get_url(activity.get('actor'))
\* if ':' not in author: author = 'acct:%s' % author
\* elif not author.startswith('acct:'): common.error(...)
\* (':' not in None raises TypeError)
ResolveAuthor ==
  /\ spc = "author"
  /\ stages' = Append(stages, "author")
  /\ LET a == GetUrl(activity.actor)
         e == common_error("UnsupportedAuthorScheme", DefaultErrorStatus)
         x == Uncaught("TypeError")
     IN IF a = NoStr
          THEN /\ outcome' = x.outcome
               /\ spc' = x.next
               /\ UNCHANGED author
          ELSE IF ~StrContains(a, ":")
            THEN /\ author' = Acct \o a
                 /\ spc' = "verify"
                 /\ UNCHANGED outcome
            ELSE IF ~StartsWith(a, Acct)
              THEN /\ author' = a
                   /\ outcome' = e.outcome
                   /\ spc' = e.next
              ELSE /\ author' = a
                   /\ spc' = "verify"
                   /\ UNCHANGED outcome
  /\ UNCHANGED <<req, parsed, data, activity, verifyCalls, dispatchCalls,
                 relayed, nreq, encVars, respVars, keyVars>>

\* a signature check whose result is not acted upon
VerifySignature_unchecked ==
  /\ spc = "verify"
  /\ stages' = Append(stages, "verify")
  /\ verifyCalls' = Append(verifyCalls,
                           [author |-> author, data |-> data, sig |-> parsed.sig,
                            result |-> MagicsigsVerify(author, data, parsed.sig)])
  /\ spc' = "translate"
  /\ UNCHANGED <<req, parsed, data, activity, author, dispatchCalls, relayed,
                 outcome, nreq, encVars, respVars, keyVars>>

\* if not magicsigs.verify(author, data, parsed['sig']): common.error(...)
VerifySignature ==
  /\ spc = "verify"
  /\ stages' = Append(stages, "verify")
  /\ LET ok == MagicsigsVerify(author, data, parsed.sig)
         e == common_error("SignatureInvalid", DefaultErrorStatus)
     IN /\ verifyCalls' = Append(verifyCalls,
                                 [author |-> author, data |-> data,
                                  sig |-> parsed.sig, result |-> ok])
        /\ IF ~ok
             THEN /\ outcome' = e.outcome
                  /\ spc' = e.next
             ELSE /\ spc' = "translate"
                  /\ UNCHANGED outcome
  /\ UNCHANGED <<req, parsed, data, activity, author, dispatchCalls, relayed,
                 nreq, encVars, respVars, keyVars>>

\* a translation that takes its activity from a payload other than data
Translate_other ==
  /\ spc = "translate"
  /\ stages' = Append(stages, "translate")
  /\ activity' = AtomToActivity(OtherDoc).value
  /\ spc' = "dispatch"
  /\ UNCHANGED <<req, parsed, data, author, verifyCalls, dispatchCalls,
                 relayed, outcome, nreq, encVars, respVars, keyVars>>

\* activity = atom.atom_to_activity(data), outside any try
Translate ==
  /\ spc = "translate"
  /\ stages' = Append(stages, "translate")
  /\ LET r == AtomToActivity(data)
         x == Uncaught(r.raised)
     IN IF r.raised # None
          THEN /\ outcome' = x.outcome
               /\ spc' = x.next
               /\ UNCHANGED activity
          ELSE /\ activity' = r.value
               /\ spc' = "dispatch"
               /\ UNCHANGED outcome
  /\ UNCHANGED <<req, parsed, data, author, verifyCalls, dispatchCalls,
                 relayed, nreq, encVars, respVars, keyVars>>

\* a dispatch that hands over the still-encoded envelope data
Dispatch_encoded ==
  /\ spc = "dispatch"
  /\ stages' = Append(stages, "dispatch")
  /\ dispatchCalls' = Append(dispatchCalls,
                             [activity |-> activity, protocol |-> "ostatus",
                              source_atom |-> parsed.data])
  /\ SendWebmentions(activity, "ostatus", parsed.data)
  /\ relayed' = relayed \cup {lastOp'.id}
  /\ outcome' = [kind |-> "Relayed", cause |-> None, status |-> 200]
  /\ spc' = "done"
  /\ UNCHANGED <<req, parsed, data, activity, author, verifyCalls, nreq,
                 encVars, keyVars>>

\* common.send_webmentions(self, activity, protocol='ostatus', source_atom=data)
Dispatch ==
  /\ spc = "dispatch"
  /\ stages' = Append(stages, "dispatch")
  /\ dispatchCalls' = Append(dispatchCalls,
                             [activity |-> activity, protocol |-> "ostatus",
                              source_atom |-> data])
  /\ SendWebmentions(activity, "ostatus", data)
  /\ relayed' = relayed \cup {lastOp'.id}
  /\ outcome' = [kind |-> "Relayed", cause |-> None, status |-> 200]
  /\ spc' = "done"
  /\ UNCHANGED <<req, parsed, data, activity, author, verifyCalls, nreq,
                 encVars, keyVars>>

\* send_webmentions delivers and records the result before post() returns
DeliverRelayed ==
  /\ spc = "done"
  /\ outcome.kind = "Relayed"
  /\ \E id \in relayed, st \in {"complete", "error"} :
       /\ responses[id].status = "new"
       /\ DeliverTo(id, st)

Init == EncOff /\ RespInit /\ KeyInit /\ SlapInit

Next ==
  \/ Receive
  \/ ParseEnvelope
  \/ DecodeData
  \/ ParsePayload
  \/ CheckVerb
  \/ ResolveAuthor
  \/ VerifySignature
  \/ Translate
  \/ Dispatch
  \/ DeliverRelayed

Spec == Init /\ [][Next]_vars

\* ------------------------------------------------------------------------
\* Properties of SlapHandler.post
\* ------------------------------------------------------------------------
StageOrder == <<"envelope", "decode", "payload", "verb", "author", "verify",
                "translate", "dispatch">>

StageIndex(st) == CHOOSE i \in 1..Len(StageOrder) : StageOrder[i] = st

SevenVerbs == {"checkin", "create", "favorite", "like", "share", "tag", "update"}

\* the envelope carries a decodable, well-formed Atom payload
HasDoc(env) ==
  /\ env.kind = "xml"
  /\ env.data.b64
  /\ env.data.doc.kind = "atom"

\* the identity verification is to be asked about
Normalized(actor) == IF StrContains(actor, ":") THEN actor ELSE Acct \o actor

\* the first validation stage the envelope fails, "none" if it fails none of
\* them (undecodable data and a missing actor are not validation failures)
FirstFailure(env) ==
  IF env.kind # "xml" THEN "envelope"
  ELSE IF ~env.data.b64 THEN "none"
  ELSE IF env.data.doc.kind # "atom" THEN "payload"
  ELSE LET doc == env.data.doc
       IN IF doc.verb # None /\ doc.verb \notin SevenVerbs THEN "verb"
          ELSE IF doc.actor = NoStr THEN "none"
          ELSE IF StrContains(doc.actor, ":") /\ ~StartsWith(doc.actor, Acct)
            THEN "author"
          ELSE IF ~(env.sig.by = Normalized(doc.actor) /\ env.sig.over = doc)
            THEN "verify"
          ELSE "none"

\* the envelope passes every validation stage and nothing raises
Passes(env) ==
  /\ HasDoc(env)
  /\ env.data.doc.actor # NoStr
  /\ FirstFailure(env) = "none"

\* C1 (signature gate): send_webmentions is called, and a Response created or
\* fetched, only after magicsigs.verify returned true for this envelope's
\* author, decoded payload and signature; a verify that returned false ends
\* the request Rejected(SignatureInvalid), with no dispatch and no Response.
SignatureGate ==
  /\ (dispatchCalls # <<>> \/ relayed # {}) =>
       \E i \in 1..Len(verifyCalls) :
         /\ verifyCalls[i].result
         /\ verifyCalls[i].data = req.data.doc
         /\ verifyCalls[i].sig = req.sig
         /\ verifyCalls[i].sig.by = verifyCalls[i].author
         /\ verifyCalls[i].sig.over = verifyCalls[i].data
  /\ \A i \in 1..Len(verifyCalls) :
       ~verifyCalls[i].result =>
         /\ spc = "done"
         /\ outcome.kind = "Rejected"
         /\ outcome.cause = "SignatureInvalid"
         /\ dispatchCalls = <<>>
         /\ relayed = {}

\* al's signature over another payload was refused
SignatureGateWitness ==
  /\ Len(verifyCalls) = 1
  /\ ~verifyCalls[1].result
  /\ verifyCalls[1].sig.by = verifyCalls[1].author
  /\ outcome.cause = "SignatureInvalid"

\* C5 (rejection is terminal): an envelope that fails a validation stage
\* (envelope parse, payload parse, verb, author scheme, signature) runs the
\* stages up to that one and no further, ends Rejected there, and never
\* reaches send_webmentions or a Response.
RejectionTerminal ==
  /\ (req.kind # "none" /\ FirstFailure(req) # "none") =>
       /\ Len(stages) <= StageIndex(FirstFailure(req))
       /\ stages = SubSeq(StageOrder, 1, Len(stages))
       /\ dispatchCalls = <<>>
       /\ relayed = {}
       /\ spc = "done" =>
            /\ outcome.kind = "Rejected"
            /\ Len(stages) = StageIndex(FirstFailure(req))
  /\ outcome.kind = "Rejected" => spc = "done"

\* a share with an https: author was rejected at author resolution
RejectionTerminalWitness ==
  /\ spc = "done"
  /\ outcome.cause = "UnsupportedAuthorScheme"
  /\ req.data.doc.verb = "share"
  /\ stages = SubSeq(StageOrder, 1, 5)

\* C6 (verb gate): once the verb check has run, a verb that is present and
\* not among the seven supported ones has ended the request with
\* UnsupportedVerb and status 501; an absent or supported verb has let the
\* request on to author resolution; nothing else answers 501.  (A verb is
\* present when activity.get('verb') is truthy.)
VerbGate ==
  /\ (HasDoc(req) /\ Len(stages) >= 4) =>
       LET verb == req.data.doc.verb
       IN IF verb # None /\ verb \notin SevenVerbs
            THEN /\ outcome = [kind |-> "Rejected", cause |-> "UnsupportedVerb",
                               status |-> 501]
                 /\ Len(stages) = 4
            ELSE /\ outcome.cause # "UnsupportedVerb"
                 /\ \/ spc = "author"
                    \/ Len(stages) >= 5 /\ stages[5] = "author"
  /\ outcome.status = 501 =>
       outcome.kind = "Rejected" /\ outcome.cause = "UnsupportedVerb"

\* a poke was answered 501
VerbGateWitness ==
  /\ HasDoc(req)
  /\ req.data.doc.verb = "poke"
  /\ outcome.status = 501

\* C7 (author scheme normalization): once author resolution has run on an
\* actor URI, an actor without ':' is verified as 'acct:' + actor, an actor
\* starting with 'acct:' is verified unchanged, and an actor with another
\* scheme is rejected with UnsupportedAuthorScheme without magicsigs.verify
\* ever being called.  (An actor has a scheme when it contains ':'.)
AuthorNormalization ==
  /\ Len(stages) < 6 => verifyCalls = <<>>
  /\ (HasDoc(req) /\ Len(stages) >= 5 /\ req.data.doc.actor # NoStr) =>
       LET a == req.data.doc.actor
       IN IF StrContains(a, ":") /\ ~StartsWith(a, Acct)
            THEN /\ outcome.kind = "Rejected"
                 /\ outcome.cause = "UnsupportedAuthorScheme"
                 /\ verifyCalls = <<>>
                 /\ Len(stages) = 5
            ELSE /\ author = (IF StrContains(a, ":") THEN a ELSE Acct \o a)
                 /\ spc = "verify" \/ Len(verifyCalls) = 1
                 /\ \A i \in 1..Len(verifyCalls) : verifyCalls[i].author = author

\* actor 'al' was verified as 'acct:al'
AuthorNormalizationWitness ==
  /\ HasDoc(req)
  /\ req.data.doc.actor = <<"a", "l">>
  /\ Len(verifyCalls) = 1
  /\ verifyCalls[1].author = <<"a", "c", "c", "t", ":", "a", "l">>

\* C9 (no unhandled faults): every request ends Relayed, or Rejected with one
\* of the six causes.
NoUnhandledFaults ==
  spc = "done" =>
    \/ outcome.kind = "Relayed"
    \/ /\ outcome.kind = "Rejected"
       /\ outcome.cause \in {"BadEnvelopeFormat", "BadPayloadFormat",
                             "UnsupportedVerb", "UnsupportedAuthorScheme",
                             "SignatureInvalid", "TranslationFailed"}

StageOrdering ==
  /\ Len(stages) <= Len(StageOrder)
  /\ \A i \in 1..Len(stages) : stages[i] = StageOrder[i]
  /\ spc \notin {"idle", "done"} => spc = StageOrder[Len(stages) + 1]
  /\ outcome.kind = "Relayed" => stages = StageOrder
  /\ (HasDoc(req) /\ TruthyName(req.data.doc.verb)
        /\ req.data.doc.verb \notin SUPPORTED_VERBS) =>
       /\ verifyCalls = <<>>
       /\ Len(stages) <= 4
       /\ spc = "done" =>
            outcome = [kind |-> "Rejected", cause |-> "UnsupportedVerb",
                       status |-> 501]

\* a poke with an https: author and a signature by somebody else's key was
\* rejected at the verb check, before author resolution and verification
StageOrderingWitness ==
  /\ HasDoc(req)
  /\ req.data.doc.verb = "poke"
  /\ req.data.doc.actor = <<"h", ":", "a", "l">>
  /\ req.sig.by = Acct \o <<"m">>
  /\ spc = "done"
  /\ outcome.cause = "UnsupportedVerb"
  /\ stages = <<"envelope", "decode", "payload", "verb">>
  /\ verifyCalls = <<>>

\* C19 (verified equals relayed): whenever send_webmentions has been called,
\* magicsigs.verify was called once and returned true, the source_atom
\* handed over is the payload it verified, the activity handed over is the
\* translation of that payload, the author it verified is the (normalized)
\* actor of that payload, and the Response looked up is for that payload's
\* source and carries that payload.
VerifiedEqualsRelayed ==
  dispatchCalls # <<>> =>
    /\ Len(verifyCalls) = 1
    /\ LET v == verifyCalls[1]
           c == dispatchCalls[1]
           t == AtomToActivity(v.data)
       IN /\ v.result
          /\ c.source_atom = v.data
          /\ t.raised = None
          /\ c.activity = t.value
          /\ v.author = Normalized(GetUrl(t.value.actor))
          /\ lastOp.op = "get_or_create" =>
               /\ lastOp.source = v.data.source
               /\ lastOp.target = v.data.target
               /\ lastOp.kwargs.source_atom = v.data

\* a like by 'acct:al', signed by al's key over that payload, was relayed
VerifiedEqualsRelayedWitness ==
  /\ outcome.kind = "Relayed"
  /\ Len(verifyCalls) = 1
  /\ Len(dispatchCalls) = 1
  /\ verifyCalls[1].result
  /\ verifyCalls[1].author = Acct \o <<"a", "l">>
  /\ dispatchCalls[1].source_atom.verb = "like"
  /\ dispatchCalls[1].source_atom.actor = Acct \o <<"a", "l">>
  /\ dispatchCalls[1].activity.verb = "like"

\* ------------------------------------------------------------------------
\* models.py: MagicKey.get_or_create, run by concurrent callers.
\* @ndb.transactional runs the body in a datastore transaction: reads see the
\* entity group as of the first read, put() is applied at commit, and a commit
\* whose entity group was committed to meanwhile fails and the body is run
\* again.  Only the first commit for a domain writes, so a caller is retried
\* at most once and ndb's retry limit is never reached.
\* ------------------------------------------------------------------------

\* a caller enters get_or_create(domain): the transaction begins
BeginGetOrCreate(p) ==
  /\ kcall[p].pc = "idle"
  /\ \E d \in Domains :
       kcall' = [kcall EXCEPT ![p] = [pc |-> "get", domain |-> d, key |-> NoKey,
                                      ver |-> 0, dirty |-> FALSE, tries |-> 0]]
  /\ UNCHANGED <<keys, kver, kputs, kret, genCount, nextGen, encVars, respVars, slapVars>>

\* a lookup whose result is ignored: a keypair is generated every time
GetById_ignored(p) ==
  /\ kcall[p].pc = "get"
  /\ LET d == kcall[p].domain
     IN kcall' = [kcall EXCEPT ![p].key = keys[d], ![p].ver = kver[d],
                               ![p].dirty = FALSE, ![p].pc = "generate"]
  /\ UNCHANGED <<keys, kver, kputs, kret, genCount, nextGen, encVars, respVars, slapVars>>

\* key = MagicKey.get_by_id(domain); if not key: ...
GetById(p) ==
  /\ kcall[p].pc = "get"
  /\ LET d == kcall[p].domain
     IN kcall' = [kcall EXCEPT ![p].key = keys[d], ![p].ver = kver[d],
                               ![p].dirty = FALSE,
                               ![p].pc = IF keys[d] = NoKey THEN "generate"
                                                           ELSE "commit"]
  /\ UNCHANGED <<keys, kver, kputs, kret, genCount, nextGen, encVars, respVars, slapVars>>

\* pubexp, mod, privexp = magicsigs.generate(); key = MagicKey(id=domain, ...)
\* generate() draws from urandom: every call yields a keypair not seen before
Generate(p) ==
  /\ kcall[p].pc = "generate"
  /\ nextGen < MaxGen
  /\ LET d == kcall[p].domain
     IN /\ kcall' = [kcall EXCEPT ![p].key = [id |-> d, mod |-> nextGen + 1,
                                               public_exponent |-> "AQAB",
                                               private_exponent |-> nextGen + 1],
                                   ![p].pc = "put"]
        /\ genCount' = [genCount EXCEPT ![d] = @ + 1]
  /\ nextGen' = nextGen + 1
  /\ UNCHANGED <<keys, kver, kputs, kret, encVars, respVars, slapVars>>

\* key.put(): buffered in the transaction until commit
Put(p) ==
  /\ kcall[p].pc = "put"
  /\ kcall' = [kcall EXCEPT ![p].dirty = TRUE, ![p].pc = "commit"]
  /\ UNCHANGED <<keys, kver, kputs, kret, genCount, nextGen, encVars, respVars, slapVars>>

\* a commit that applies its write without checking for a concurrent commit
Commit_unchecked(p) ==
  /\ kcall[p].pc = "commit"
  /\ LET d == kcall[p].domain
     IN IF kcall[p].dirty
          THEN /\ keys' = [keys EXCEPT ![d] = kcall[p].key]
               /\ kver' = [kver EXCEPT ![d] = @ + 1]
               /\ kputs' = [kputs EXCEPT ![d] = @ \cup {kcall[p].key}]
               /\ kcall' = [kcall EXCEPT ![p].pc = "return"]
          ELSE /\ kcall' = [kcall EXCEPT ![p].pc = "return"]
               /\ UNCHANGED <<keys, kver, kputs>>
  /\ UNCHANGED <<kret, genCount, nextGen, encVars, respVars, slapVars>>

\* the transaction commits on leaving the body; on a conflict the body reruns
Commit(p) ==
  /\ kcall[p].pc = "commit"
  /\ LET d == kcall[p].domain
     IN IF kcall[p].dirty /\ kver[d] # kcall[p].ver
          THEN /\ kcall' = [kcall EXCEPT ![p].pc = "get", ![p].tries = @ + 1]
               /\ UNCHANGED <<keys, kver, kputs>>
          ELSE IF kcall[p].dirty
            THEN /\ keys' = [keys EXCEPT ![d] = kcall[p].key]
                 /\ kver' = [kver EXCEPT ![d] = @ + 1]
                 /\ kputs' = [kputs EXCEPT ![d] = @ \cup {kcall[p].key}]
                 /\ kcall' = [kcall EXCEPT ![p].pc = "return"]
            ELSE /\ kcall' = [kcall EXCEPT ![p].pc = "return"]
                 /\ UNCHANGED <<keys, kver, kputs>>
  /\ UNCHANGED <<kret, genCount, nextGen, encVars, respVars, slapVars>>

\* return key
Return(p) ==
  /\ kcall[p].pc = "return"
  /\ kret' = [kret EXCEPT ![kcall[p].domain] = @ \cup {kcall[p].key}]
  /\ kcall' = [kcall EXCEPT ![p].pc = "idle"]
  /\ UNCHANGED <<keys, kver, kputs, genCount, nextGen, encVars, respVars, slapVars>>

KeyStoreInit == EncOff /\ RespInit /\ KeyInit /\ SlapInit

KeyNext ==
  \E p \in Callers :
    \/ BeginGetOrCreate(p)
    \/ GetById(p)
    \/ Generate(p)
    \/ Put(p)
    \/ Commit(p)
    \/ Return(p)

SpecKey == KeyStoreInit /\ [][KeyNext]_vars

\* ------------------------------------------------------------------------
\* Properties of the MagicKey kind
\* ------------------------------------------------------------------------

\* C3 (key idempotence): for every domain, whatever the interleaving of the
\* concurrent get_or_create calls, at most one MagicKey is ever committed
\* under that id, and every call returns that one entity: the same mod,
\* public_exponent and private_exponent for all callers.
KeyIdempotence ==
  \A d \in Domains :
    /\ Cardinality(kputs[d]) <= 1
    /\ Cardinality(kret[d]) <= 1
    /\ kret[d] # {} => kret[d] = {keys[d]} /\ kputs[d] = {keys[d]}
    /\ \A p \in Callers :
         (kcall[p].pc = "return" /\ kcall[p].domain = d) => kcall[p].key = keys[d]

\* both callers asked for the same new domain at once, the loser's commit
\* conflicted, and it has come back with the winner's key
KeyIdempotenceWitness ==
  \E p \in Callers, d \in Domains :
    /\ kcall[p].pc = "return"
    /\ kcall[p].domain = d
    /\ kcall[p].tries = 1
    /\ kret[d] # {}
    /\ genCount[d] = 2

\* C12 (single generation): for every domain, whatever the interleaving of
\* the concurrent first-time get_or_create calls, magicsigs.generate is run
\* at most once for it (and exactly once when a key was committed).
SingleGeneration ==
  \A d \in Domains :
    /\ genCount[d] <= 1
    /\ keys[d] # NoKey => genCount[d] = 1

\* ------------------------------------------------------------------------
\* MagicKey.get_or_create calls interleaved with envelope intakes.  Nothing
\* in SlapHandler.post touches the MagicKey kind: magicsigs.verify fetches
\* the author's public key, it does not call MagicKey.get_or_create.
\* ------------------------------------------------------------------------

\* bodies for the interleaving: an envelope that is relayed and one whose
\* signature is by another key
IntakeEnvelopes ==
  LET doc == [kind |-> "atom", verb |-> "like", actor |-> <<"a", "l">>,
              source |-> <<"a", "#">>, target |-> <<"t">>]
  IN {[kind |-> "xml", data |-> [b64 |-> TRUE, doc |-> doc],
       sig |-> [by |-> Acct \o <<"a", "l">>, over |-> doc]],
      [kind |-> "xml", data |-> [b64 |-> TRUE, doc |-> doc],
       sig |-> [by |-> Acct \o <<"m">>, over |-> doc]]}

KeyIntakeNext ==
  \/ \E p \in Callers :
       \/ BeginGetOrCreate(p)
       \/ GetById(p)
       \/ Generate(p)
       \/ Put(p)
       \/ Commit(p)
       \/ Return(p)
  \/ ReceiveFrom(IntakeEnvelopes)
  \/ ParseEnvelope
  \/ DecodeData
  \/ ParsePayload
  \/ CheckVerb
  \/ ResolveAuthor
  \/ VerifySignature
  \/ Translate
  \/ Dispatch

SpecKeyIntake == Init /\ [][KeyIntakeNext]_vars

\* C15 (key immutability): once a MagicKey exists for a domain, no step of
\* any MagicKey.get_or_create call, for that domain or another, and no step
\* of any envelope intake changes its mod, public_exponent or
\* private_exponent or removes it.
KeyImmutability ==
  [][\A d \in Domains :
       keys[d] # NoKey =>
         /\ keys'[d] # NoKey
         /\ keys'[d].mod = keys[d].mod
         /\ keys'[d].public_exponent = keys[d].public_exponent
         /\ keys'[d].private_exponent = keys[d].private_exponent]_vars

\* with a key stored for a domain and returned once already, an envelope was
\* relayed, a key was then made for the other domain, and a later call for
\* the first domain has found its key
KeyImmutabilityWitness ==
  \E p \in Callers, d \in Domains, o \in Domains :
    /\ o # d
    /\ keys[d] # NoKey
    /\ keys[o] # NoKey
    /\ keys[o].mod > keys[d].mod
    /\ kret[d] # {}
    /\ outcome.kind = "Relayed"
    /\ kcall[p].pc = "return"
    /\ kcall[p].domain = d
    /\ ~kcall[p].dirty
    /\ kcall[p].key = keys[d]

\* ------------------------------------------------------------------------
\* Properties of the Response kind
\* ------------------------------------------------------------------------

\* C2 (relay idempotence): after any number of Response.get_or_create calls
\* with non-empty source and target, in any order, every key id has had
\* exactly one entity put under it, and each call returned the stored entity
\* whose key id is _encode(source) + ' ' + _encode(target).
RelayIdempotence ==
  /\ \A id \in DOMAIN inserted : Cardinality(inserted[id]) = 1
  /\ (lastOp.op = "get_or_create" /\ lastOp.raised = None) =>
       LET id == StrReplace(lastOp.source, <<"#">>, <<"_", "_">>) \o <<" ">>
                 \o StrReplace(lastOp.target, <<"#">>, <<"_", "_">>)
       IN /\ lastOp.id = id
          /\ id \in DOMAIN responses
          /\ lastOp.ret = responses[id]
          /\ inserted[id] = {lastOp.ret.created}

\* a second call for a pair containing '#' found the entity of the first
RelayIdempotenceWitness ==
  /\ lastOp.op = "get_or_create"
  /\ lastOp.raised = None
  /\ lastOp.found
  /\ StrContains(lastOp.source, "#")
  /\ Cardinality(DOMAIN responses) = 2

\* C8 (found-path frame): a Response.get_or_create call whose key id is
\* already stored returns the stored entity and leaves every stored entity,
\* the status set by delivery included, exactly as it was; kwargs are ignored.
FoundPathFrame ==
  [][(/\ lastOp'.op = "get_or_create"
      /\ lastOp'.raised = None
      /\ lastOp'.id \in DOMAIN responses)
     => (/\ responses' = responses
         /\ lastOp'.ret = responses[lastOp'.id])]_vars

\* a call passing status='error' found an entity delivery had completed
FoundPathFrameWitness ==
  /\ lastOp.op = "get_or_create"
  /\ lastOp.raised = None
  /\ lastOp.found
  /\ "status" \in DOMAIN lastOp.kwargs
  /\ lastOp.ret.status = "complete"
  /\ lastOp.ret.updated > lastOp.ret.created

\* the last operation was given a missing or empty source or target
MissingPair == ~(Truthy(lastOp.source) /\ Truthy(lastOp.target))

\* C11 (non-empty precondition), as claimed: get_or_create and the constructor
\* both reject a missing or empty source or target, and hand back no record.
NonEmptyPrecondition ==
  (lastOp.op \in {"get_or_create", "init"} /\ MissingPair) =>
    /\ lastOp.raised = "AssertionError"
    /\ (lastOp.op = "init" => ~lastOp.built)

\* C11, amended: get_or_create with a missing or empty source or target raises
\* AssertionError before any key id is built and stores nothing; the
\* constructor does not reject such a pair: it builds the entity from the
\* keyword arguments alone, with no key id derived from the pair.
NonEmptyPreconditionAmended ==
  [][
      /\ (lastOp'.op = "get_or_create"
          /\ ~(Truthy(lastOp'.source) /\ Truthy(lastOp'.target))) =>
           (/\ lastOp'.raised = "AssertionError"
            /\ lastOp'.id = NoStr
            /\ responses' = responses
            /\ inserted' = inserted)
      /\ (lastOp'.op = "init"
          /\ ~(Truthy(lastOp'.source) /\ Truthy(lastOp'.target))) =>
           (/\ lastOp'.raised = None
            /\ lastOp'.built
            /\ lastOp'.id = Kwarg(lastOp'.kwargs, "id", NoStr)
            /\ responses' = responses)
    ]_vars

\* get_or_create('', target) raised after an entity had been stored
NonEmptyPreconditionWitness ==
  /\ lastOp.op = "get_or_create"
  /\ lastOp.source = <<>>
  /\ lastOp.raised = "AssertionError"
  /\ DOMAIN responses # {}

SourceFields == {"source_mf2", "source_as2", "source_atom"}

\* C16 (single source form), as claimed: every stored Response has at most
\* one of source_mf2, source_as2, source_atom populated.
SingleSourceForm ==
  \A id \in DOMAIN responses :
    Cardinality({f \in SourceFields : responses[id][f] # None}) <= 1

\* C16, amended: a stored Response has exactly those of source_mf2,
\* source_as2, source_atom populated that were passed to the get_or_create
\* call that created it, and they never change afterwards; so at most one is
\* populated only as long as every creating call passes at most one.
SingleSourceFormAmended ==
  [][
      /\ (lastOp'.op = "get_or_create" /\ lastOp'.raised = None
          /\ lastOp'.id \notin DOMAIN responses) =>
           (\A f \in SourceFields :
              responses'[lastOp'.id][f] = Kwarg(lastOp'.kwargs, f, None))
      /\ \A id \in DOMAIN responses :
           /\ id \in DOMAIN responses'
           /\ \A f \in SourceFields : responses'[id][f] = responses[id][f]
    ]_vars

\* a Response created with two source forms, since delivered
SingleSourceFormWitness ==
  \E id \in DOMAIN responses :
    /\ responses[id].source_mf2 = "mf2"
    /\ responses[id].source_as2 = "as2"
    /\ responses[id].updated > responses[id].created

\* C17 (identity injectivity): two get_or_create calls for different
\* (source, target) pairs never get the same key id.
IdentityInjectivity ==
  [][(/\ lastOp.op = "get_or_create" /\ lastOp.raised = None
      /\ lastOp'.op = "get_or_create" /\ lastOp'.raised = None
      /\ <<lastOp.source, lastOp.target>> # <<lastOp'.source, lastOp'.target>>)
     => lastOp'.id # lastOp.id]_vars

\* C18 (accessor round-trip): for a Response created or fetched with a
\* non-empty pair, source() is the original source and target() the original
\* target.
AccessorRoundTrip ==
  lastOp.op = "accessors" =>
    /\ lastOp.source_ret = lastOp.source
    /\ lastOp.target_ret = lastOp.target

\* ------------------------------------------------------------------------
\* Properties of the escaping
\* ------------------------------------------------------------------------

\* C4 (escaping round-trip): for every string s, _decode(_encode(s)) = s.
EscapingRoundTrip == epc = "decoded" => decOut = encIn

====
